---- MODULE Spec2Model ----
(***************************************************************************)
(* AgentRank engine: the /scan/stream session orchestrator of              *)
(* python-engine/main.py (run_scan_stream.event_generator) together with   *)
(* the upload helpers of python-engine/r2_upload.py.                       *)
(*                                                                         *)
(* One session is modelled as the generator's position (pc) plus its       *)
(* locals; every external call (URL GET, Browser(), agent.run(),           *)
(* browser.close(), client.upload_file()) is an action whose outcome is    *)
(* drawn from a small set.  `events` is the stream the caller receives.    *)
(*                                                                         *)
(* Specifications:                                                         *)
(*   Spec             one session, from request to terminal event          *)
(*   SpecCancel       Spec plus cancellation at the suspension points      *)
(*   SpecSweeper      cleanup_old_recordings and the clock (-Fair: with    *)
(*                    the event loop's scheduling as weak fairness)        *)
(*   SpecProcess      one session, the sweeper and the clock on the one    *)
(*                    event-loop thread                                    *)
(*   SpecSse          sse_event applied to a type and a payload            *)
(*   SpecLlm          get_llm applied to an environment                    *)
(*   SpecFair         Spec with every awaited call returning               *)
(*   SpecProcessFair  SpecProcess with time advancing and a fair sweeper   *)
(*   SpecPeers        two sessions in flight on the one event loop         *)
(***************************************************************************)
EXTENDS Integers, Sequences, FiniteSets, TLC

(* ---------------------------- bounds ---------------------------------- *)
MaxTasks == 2        \* longest request.tasks list explored
MaxSteps == 1        \* longest history.history trace one agent run returns

(* ----------------------- program constants ---------------------------- *)
MaxAttempts == 3         \* stop_after_attempt(3)
StatusLow == 200         \* 200 <= resp.status
StatusHigh == 300        \* resp.status < 300
PrepPromptMax == 50      \* request.prep_prompt[:50]
ErrTextMax == 200        \* str(prep_err)[:200], str(step)[:200]
UrlErrMax == 100         \* str(url_err)[:100]
OutputMax == 500         \* result[:500]
RetentionWindow == 3600  \* one_hour_ago = current_time - 3600
SweepInterval == 900     \* await asyncio.sleep(900)

(* ------------------------- input domains ------------------------------ *)
None == "None"
\* video_path before `video_path = str(video_files[0])` has run.
NoPath == << >>
ScanIds == {"a1b2c3d4"}
\* Values of uuid4()[:8] in a second, concurrent session: the first session's
\* own (the 32 bits drawn twice) or another.
PeerIds == ScanIds \cup {"e5f6a7b8"}
Urls == {"http://site"}
FinalUrls == {"http://site", "http://site/home"}
Statuses == {199, 200, 300, 404}
Signals == {"prep", "nav"}
Names == {"Check"}
Prompts == {"Find the menu"}
PrepPrompts == {None, "", "Dismiss the cookie banner"}
TraceSteps == {"click"}
ErrTexts == {"boom"}
Exts == {"mp4", "webm"}
\* Media a closed browser may have written into record_video_dir.
ProducedSets == { {}, {"webm"}, {"mp4", "webm"} }

\* Entries of RECORDINGS_DIR: session directories, a directory left by an
\* earlier session, and a plain file.
OldDirs == {"0ldscan0", "0ldscan1"}
FileNames == {"notes.txt"}
Entries == PeerIds \cup OldDirs \cup FileNames
\* Ages (seconds) an entry found at start-up may have: inside the window, on
\* its edge, one second past it.
OldAges == {1, RetentionWindow, RetentionWindow + 1}

ScanTask == [name : Names, signal : Signals, prompt : Prompts]

RECURSIVE SeqsUpTo(_, _)
SeqsUpTo(S, n) ==
    IF n = 0 THEN {<<>>}
    ELSE LET shorter == SeqsUpTo(S, n - 1)
         IN  shorter \cup {Append(s, x) : s \in {t \in shorter : Len(t) = n - 1}, x \in S}

TaskLists == SeqsUpTo(ScanTask, MaxTasks)

\* What one agent.run() hands back: the trace, final_result() and the token
\* counters.  A run that took no step has no final result and reports no
\* tokens (the counters then default to 0); a run of k steps has a final
\* result and token counts that grow with k.
Histories ==
    { [history |-> h,
       result |-> IF h = << >> THEN None ELSE "found",
       inTok |-> 3 * Len(h),
       outTok |-> Len(h)] : h \in SeqsUpTo(TraceSteps, MaxSteps) }

\* Environment the LLM is selected from: the four credentials get_llm reads.
Env == [azure_endpoint : {"", "ep"}, azure_key : {"", "k"},
        openai_key : {"", "k"}, anthropic_key : {"", "k"}]
SessionEnvs == { e \in Env : e.azure_endpoint = "" /\ e.azure_key = "" /\ e.anthropic_key = "" }

\* R2 settings read at import time by r2_upload.py.
R2Envs == { [account |-> "acc", access |-> "ak", secret |-> "", public |-> ""],
            [account |-> "acc", access |-> "ak", secret |-> "sk", public |-> "https://replays"] }

VARIABLES
    request,      \* ScanRequest: url, tasks, prep_prompt, record_video
    env,          \* credentials in os.environ
    r2env,        \* R2_ACCOUNT_ID, R2_ACCESS_KEY, R2_SECRET_KEY, R2_PUBLIC_URL
    resp,         \* how the reachability GET ended: kind, resp.status, resp.url
    pc,           \* position of event_generator
    scan_id,
    video_url,
    browser,      \* None | "open" | "closed"
    llm,
    total_step_count,
    task_index,
    results,
    ti,           \* index into request.tasks of the task in hand
    exc,          \* exception travelling to `except Exception as e`
    events,       \* the SSE stream, in emission order
    agentRuns,    \* Agent(...).run() calls made so far
    closeCalls,   \* browser.close() calls made so far
    recDirs,      \* directories under RECORDINGS_DIR
    recFiles,     \* media files, as <<directory, extension, writer>>
    video_path,   \* video_files[0]
    attempts,     \* client.upload_file calls made by _upload_file_with_retry
    uploaded,     \* keys stored in the bucket
    age,          \* per entry of RECORDINGS_DIR: time.time() - st_mtime, in seconds
    rootFiles,    \* entries of RECORDINGS_DIR that are not directories
    swpc,         \* cleanup_old_recordings: "sleeping" (in asyncio.sleep) | "sweeping"
    wake_in,      \* seconds until the sweeper's asyncio.sleep is over
    lastSweep,    \* the log of the last sweep: how it ended, what it set out to remove
    sse_t,        \* sse_event applied on its own: event_type,
    sse_d,        \*   data,
    sse_out,      \*   and the returned text (<< >> before the call)
    peer          \* a second event_generator: its position, scan_id and video_path

vars == <<request, env, r2env, resp, pc, scan_id, video_url, browser, llm,
          total_step_count, task_index, results, ti, exc, events, agentRuns,
          closeCalls, recDirs, recFiles, video_path, attempts, uploaded,
          age, rootFiles, swpc, wake_in, lastSweep, sse_t, sse_d, sse_out, peer>>

\* State outside the session: the other root entries, the sweeper, sse_event alone.
outside == <<rootFiles, swpc, wake_in, lastSweep, sse_t, sse_d, sse_out, peer>>

(* ------------------------- pure helpers ------------------------------- *)
Truthy(s) == s # None /\ s # ""

Truncate(s, n) == IF Len(s) <= n THEN s ELSE SubSeq(s, 1, n)

\* Variant: {**data, 'type': event_type}, the event type overriding data's own.
sse_event_type_last(event_type, data) == <<"data: ", [type |-> event_type] @@ data, "\n\n">>

\* f"data: {json.dumps({'type': event_type, **data})}\n\n", as its three
\* parts; the middle one is the object that json.dumps writes and json.loads
\* reads back (string keys, JSON values).  In {'type': t, **data} a "type"
\* key of data replaces t.
sse_event(event_type, data) == <<"data: ", data @@ [type |-> event_type], "\n\n">>

\* Variant: the OpenAI key is looked at before the Azure pair.
get_llm_openai_first(e) ==
    IF Truthy(e.openai_key) THEN "ChatOpenAI"
    ELSE IF Truthy(e.azure_endpoint) /\ Truthy(e.azure_key) THEN "ChatAzureOpenAI"
    ELSE IF Truthy(e.anthropic_key) THEN "ChatAnthropic"
    ELSE "ValueError"

get_llm(e) ==
    IF Truthy(e.azure_endpoint) /\ Truthy(e.azure_key) THEN "ChatAzureOpenAI"
    ELSE IF Truthy(e.openai_key) THEN "ChatOpenAI"
    ELSE IF Truthy(e.anthropic_key) THEN "ChatAnthropic"
    ELSE "ValueError"

get_r2_client(r) ==
    IF Truthy(r.account) /\ Truthy(r.access) /\ Truthy(r.secret) THEN "client" ELSE None

total_tasks == Len(request.tasks) + (IF Truthy(request.prep_prompt) THEN 1 ELSE 0)

RECURSIVE SumField(_, _)
SumField(rs, f) ==
    IF rs = <<>> THEN 0
    ELSE (IF f \in DOMAIN Head(rs) THEN Head(rs)[f] ELSE 0) + SumField(Tail(rs), f)

Emit(evs) == events' = events \o evs

(* ----------------------------- Init ----------------------------------- *)
\* asyncio.create_task(cleanup_old_recordings()): the first sweep is due at once.
SweeperCreated ==
    swpc = "sleeping" /\ wake_in = 0 /\ lastSweep = [ended |-> "none", removing |-> {}]

\* No second request is being served.
NoPeer == peer = [pc |-> "absent", scan_id |-> None, video_path |-> NoPath]

\* sse_event is not being applied on its own.
SseUnused == sse_t = None /\ sse_d = << >> /\ sse_out = << >>

\* The generator's locals before its first step, and nothing stored yet.
FreshSession ==
    /\ resp = [kind |-> "none", status |-> 0, url |-> None]
    /\ pc = "init"
    /\ scan_id = None
    /\ video_url = None
    /\ browser = None
    /\ llm = None
    /\ total_step_count = 0
    /\ task_index = 0
    /\ results = <<>>
    /\ ti = 0
    /\ exc = None
    /\ events = <<>>
    /\ agentRuns = <<>>
    /\ closeCalls = 0
    /\ video_path = NoPath
    /\ attempts = 0
    /\ uploaded = {}

Init ==
    /\ request \in [url : Urls, tasks : TaskLists, prep_prompt : PrepPrompts,
                    record_video : BOOLEAN]
    /\ env \in SessionEnvs
    /\ r2env \in R2Envs
    /\ FreshSession
    /\ recDirs = {}
    /\ recFiles = {}
    /\ age = [e \in Entries |-> 0]
    /\ rootFiles = {}
    /\ SweeperCreated
    /\ NoPeer
    /\ SseUnused

(* ------------------------- event builders ----------------------------- *)
StepEvent(n, action, status) ==
    sse_event("step", [step |-> n, action |-> action, status |-> status])

\* Variant: trace steps numbered per run (step = i + 1), not from the shared counter.
HistoryStepsPerRun(h, base, signal) ==
    [k \in 1..Len(h) |->
        sse_event("step", [step |-> k, action |-> Truncate(h[k], ErrTextMax),
                           status |-> "done", signal |-> signal])]

\* for i, step in enumerate(history.history): total_step_count += 1; yield step
HistorySteps(h, base, signal) ==
    [k \in 1..Len(h) |->
        sse_event("step", [step |-> base + k, action |-> Truncate(h[k], ErrTextMax),
                           status |-> "done", signal |-> signal])]

ProgressEvent(idx, signal, name) ==
    sse_event("progress", [task_index |-> idx, total |-> total_tasks,
                           signal |-> signal, name |-> name])

(* --------------------- event_generator, step by step ------------------ *)
\* The sweep between two asyncio.sleep calls has no await: while it runs the
\* event loop runs nothing else, so no generator is resumed.
InSweep == swpc = "sweeping"

\* scan_id = uuid4()[:8]; video_dir.mkdir(exist_ok=True); yield start; yield step 0
StartScan ==
    /\ pc = "init"
    /\ ~InSweep
    /\ \E id \in ScanIds, mkdirOk \in BOOLEAN :
         /\ scan_id' = id
         /\ IF mkdirOk
            THEN /\ recDirs' = recDirs \cup {id}
                 /\ age' = IF id \in recDirs THEN age ELSE [age EXCEPT ![id] = 0]
                 /\ Emit(<< sse_event("start", [scanId |-> id, message |-> "Starting scan...",
                                                total |-> total_tasks]),
                            StepEvent(0, "Checking URL: " \o request.url, "running") >>)
                 /\ pc' = "url_check"
                 /\ exc' = exc
            ELSE /\ exc' = "mkdir failed"
                 /\ pc' = "fatal"
                 /\ UNCHANGED <<recDirs, age, events>>
    /\ UNCHANGED <<request, env, r2env, resp, video_url, browser, llm, total_step_count,
                   task_index, results, ti, agentRuns, closeCalls, recFiles,
                   video_path, attempts, uploaded>>
    /\ UNCHANGED outside

\* The GET answered: optional redirect notice, then the 2xx test.
\* Variants of the 2xx test: upper bound included; anything below 500 accepted.
StatusOkInclusive(status) == StatusLow <= status /\ status <= StatusHigh

StatusOkBelow500(status) == StatusLow <= status /\ status < 500

\* if not (200 <= resp.status < 300)
StatusOk(status) == StatusLow <= status /\ status < StatusHigh

UrlResponse(final, status) ==
    LET redirected == IF final # request.url
                      THEN << StepEvent(0, "Redirected to: " \o final, "done") >>
                      ELSE << >>
    IN  /\ resp' = [kind |-> "response", status |-> status, url |-> final]
        /\ IF ~StatusOk(status)
           THEN /\ Emit(redirected \o
                        << sse_event("error",
                             [message |-> "URL returned status " \o ToString(status)
                                          \o " (expected 200-299): " \o final]) >>)
                /\ pc' = "done"
                /\ request' = request
           ELSE /\ request' = [request EXCEPT !.url = final]
                /\ Emit(redirected \o
                        << StepEvent(0, "URL verified (status 200): " \o final, "done") >>)
                /\ pc' = "get_llm"

UrlTimeout ==
    /\ resp' = [kind |-> "timeout", status |-> 0, url |-> None]
    /\ Emit(<< sse_event("error", [message |-> "URL timed out after 10 seconds: " \o request.url]) >>)
    /\ pc' = "done"
    /\ request' = request

\* Variant: the handler emits its `error` event but does not return.
UrlUnreachableNoReturn(err) ==
    /\ resp' = [kind |-> "error", status |-> 0, url |-> None]
    /\ Emit(<< sse_event("error", [message |-> "URL is unreachable: " \o request.url
                                     \o ". Error: " \o Truncate(err, UrlErrMax)]) >>)
    /\ pc' = "get_llm"
    /\ request' = request

UrlUnreachable(err) ==
    /\ resp' = [kind |-> "error", status |-> 0, url |-> None]
    /\ Emit(<< sse_event("error", [message |-> "URL is unreachable: " \o request.url
                                     \o ". Error: " \o Truncate(err, UrlErrMax)]) >>)
    /\ pc' = "done"
    /\ request' = request

CheckUrl ==
    /\ pc = "url_check"
    /\ ~InSweep
    /\ \/ \E final \in FinalUrls, status \in Statuses : UrlResponse(final, status)
       \/ UrlTimeout
       \/ \E err \in ErrTexts : UrlUnreachable(err)
    /\ UNCHANGED <<env, r2env, scan_id, video_url, browser, llm, total_step_count,
                   task_index, results, ti, exc, agentRuns, closeCalls, recDirs,
                   recFiles, video_path, attempts, uploaded>>
    /\ UNCHANGED <<age, outside>>

\* llm = get_llm(); yield "Launching browser"
GetLLM ==
    /\ pc = "get_llm"
    /\ ~InSweep
    /\ IF get_llm(env) = "ValueError"
       THEN /\ exc' = "No API key found"
            /\ pc' = "fatal"
            /\ UNCHANGED <<llm, events>>
       ELSE /\ llm' = get_llm(env)
            /\ Emit(<< StepEvent(0, "Launching browser", "running") >>)
            /\ pc' = "launch"
            /\ exc' = exc
    /\ UNCHANGED <<request, env, r2env, resp, scan_id, video_url, browser, total_step_count,
                   task_index, results, ti, agentRuns, closeCalls, recDirs, recFiles,
                   video_path, attempts, uploaded>>
    /\ UNCHANGED <<age, outside>>

\* Variant: the guard tests for None only, so an empty prompt still runs prep.
HasPrepNotNone == request.prep_prompt # None

\* if request.prep_prompt:
HasPrep == Truthy(request.prep_prompt)

\* browser = Browser(...); yield "Browser launched"; task_index = 0; results = []
LaunchBrowser ==
    /\ pc = "launch"
    /\ ~InSweep
    /\ \E ok \in BOOLEAN :
         IF ok
         THEN /\ browser' = "open"
              /\ Emit(<< StepEvent(0, "Browser launched", "done") >>)
              /\ pc' = IF HasPrep THEN "prep_start" ELSE "task_loop"
              /\ exc' = exc
         ELSE /\ exc' = "browser launch failed"
              /\ pc' = "fatal"
              /\ UNCHANGED <<browser, events>>
    /\ task_index' = 0
    /\ results' = <<>>
    /\ UNCHANGED <<request, env, r2env, resp, scan_id, video_url, llm, total_step_count,
                   ti, agentRuns, closeCalls, recDirs, recFiles, video_path,
                   attempts, uploaded>>
    /\ UNCHANGED <<age, outside>>

\* if request.prep_prompt: progress, "Running prep" step, Agent(...).run() under wait_for
PrepStart ==
    /\ pc = "prep_start"
    /\ ~InSweep
    /\ task_index' = task_index + 1
    /\ Emit(<< ProgressEvent(task_index + 1, "prep", "Prep Action"),
               StepEvent(total_step_count + 1,
                         "Running prep: " \o Truncate(request.prep_prompt, PrepPromptMax) \o "...",
                         "running") >>)
    /\ agentRuns' = Append(agentRuns,
                           [kind |-> "prep",
                            task |-> "Navigate to " \o request.url \o ". " \o request.prep_prompt,
                            llm |-> llm, browser |-> browser, outcome |-> "running"])
    /\ pc' = "prep_run"
    /\ UNCHANGED <<request, env, r2env, resp, scan_id, video_url, browser, llm,
                   total_step_count, results, ti, exc, closeCalls, recDirs, recFiles,
                   video_path, attempts, uploaded>>
    /\ UNCHANGED <<age, outside>>

\* The run in flight (the last one started) ends with the given outcome.
RunEnds(outcome) ==
    agentRuns' = [agentRuns EXCEPT ![Len(agentRuns)].outcome = outcome]

\* Variant: the prep run's token counts are recorded in `results` like a task's.
PrepSucceededCounted(h) ==
    /\ RunEnds("returned")
    /\ pc' = "task_loop"
    /\ total_step_count' = total_step_count + Len(h.history)
    /\ results' = Append(results, [signal |-> "prep", success |-> TRUE,
                                   output |-> "Prep action completed",
                                   inputTokens |-> h.inTok, outputTokens |-> h.outTok])
    /\ Emit(HistorySteps(h.history, total_step_count, "prep") \o
            << sse_event("task_complete", [signal |-> "prep", output |-> "Prep action completed",
                                           inputTokens |-> h.inTok, outputTokens |-> h.outTok]) >>)

PrepSucceeded(h) ==
    /\ RunEnds("returned")
    /\ results' = results
    /\ pc' = "task_loop"
    /\ total_step_count' = total_step_count + Len(h.history)
    /\ Emit(HistorySteps(h.history, total_step_count, "prep") \o
            << sse_event("task_complete", [signal |-> "prep", output |-> "Prep action completed",
                                           inputTokens |-> h.inTok, outputTokens |-> h.outTok]) >>)

\* Variant: a prep timeout is reported as a session `error` and ends the stream.
PrepTimedOutAborts ==
    /\ RunEnds("timeout")
    /\ results' = results
    /\ pc' = "done"
    /\ total_step_count' = total_step_count
    /\ Emit(<< sse_event("error",
                 [message |-> "Prep action timed out after 60 seconds. URL may be unreachable: "
                              \o request.url]) >>)

\* Variant: the timeout is reported while the timed-out prep run is left running.
PrepTimedOutStillRunning ==
    /\ agentRuns' = agentRuns
    /\ results' = results
    /\ pc' = "task_loop"
    /\ total_step_count' = total_step_count
    /\ Emit(<< sse_event("task_failed",
                 [signal |-> "prep",
                  error |-> "Prep action timed out after 60 seconds. URL may be unreachable: "
                            \o request.url]) >>)

PrepTimedOut ==
    /\ RunEnds("timeout")
    /\ results' = results
    /\ pc' = "task_loop"
    /\ total_step_count' = total_step_count
    /\ Emit(<< sse_event("task_failed",
                 [signal |-> "prep",
                  error |-> "Prep action timed out after 60 seconds. URL may be unreachable: "
                            \o request.url]) >>)

PrepRaised(err) ==
    /\ RunEnds("raised")
    /\ results' = results
    /\ pc' = "task_loop"
    /\ total_step_count' = total_step_count
    /\ Emit(<< sse_event("task_failed",
                 [signal |-> "prep",
                  error |-> "Prep action failed: " \o Truncate(err, ErrTextMax)]) >>)

\* The awaited prep run returns, times out or raises; all three go on to the tasks.
PrepEnd ==
    /\ pc = "prep_run"
    /\ ~InSweep
    /\ \/ \E h \in Histories : PrepSucceeded(h)
       \/ PrepTimedOut
       \/ \E err \in ErrTexts : PrepRaised(err)
    /\ UNCHANGED <<request, env, r2env, resp, scan_id, video_url, browser, llm, task_index,
                   ti, exc, closeCalls, recDirs, recFiles, video_path,
                   attempts, uploaded>>
    /\ UNCHANGED <<age, outside>>

\* for task in request.tasks: progress, "Running: name" step, Agent(...).run()
TaskStart ==
    /\ pc = "task_loop"
    /\ ~InSweep
    /\ ti < Len(request.tasks)
    /\ LET task == request.tasks[ti + 1]
       IN  /\ Emit(<< ProgressEvent(task_index + 1, task.signal, task.name),
                      StepEvent(total_step_count + 1, "Running: " \o task.name, "running") >>)
           /\ agentRuns' = Append(agentRuns,
                                  [kind |-> "task",
                                   task |-> "You are already on " \o request.url \o ". " \o task.prompt,
                                   llm |-> llm, browser |-> browser, outcome |-> "running"])
    /\ ti' = ti + 1
    /\ task_index' = task_index + 1
    /\ pc' = "task_run"
    /\ UNCHANGED <<request, env, r2env, resp, scan_id, video_url, browser, llm,
                   total_step_count, results, exc, closeCalls, recDirs, recFiles,
                   video_path, attempts, uploaded>>
    /\ UNCHANGED <<age, outside>>

\* Variant: the outcome event is yielded before the run's trace steps.
TaskSucceededOutcomeFirst(task, h) ==
    /\ RunEnds("returned")
    /\ pc' = "task_loop"
    /\ total_step_count' = total_step_count + Len(h.history)
    /\ results' = Append(results, [signal |-> task.signal, success |-> TRUE, output |-> h.result,
                                   inputTokens |-> h.inTok, outputTokens |-> h.outTok])
    /\ Emit(<< sse_event("task_complete",
                 [signal |-> task.signal,
                  output |-> IF Truthy(h.result) THEN Truncate(h.result, OutputMax) ELSE "Completed",
                  inputTokens |-> h.inTok, outputTokens |-> h.outTok]) >> \o
            HistorySteps(h.history, total_step_count, task.signal))

TaskSucceeded(task, h) ==
    /\ RunEnds("returned")
    /\ pc' = "task_loop"
    /\ total_step_count' = total_step_count + Len(h.history)
    /\ results' = Append(results, [signal |-> task.signal, success |-> TRUE, output |-> h.result,
                                   inputTokens |-> h.inTok, outputTokens |-> h.outTok])
    /\ Emit(HistorySteps(h.history, total_step_count, task.signal) \o
            << sse_event("task_complete",
                 [signal |-> task.signal,
                  output |-> IF Truthy(h.result) THEN Truncate(h.result, OutputMax) ELSE "Completed",
                  inputTokens |-> h.inTok, outputTokens |-> h.outTok]) >>)

\* Variant: a failed task resets the shared step counter.
TaskRaisedResetsCounter(task, err) ==
    /\ RunEnds("raised")
    /\ pc' = "task_loop"
    /\ total_step_count' = 0
    /\ results' = Append(results, [signal |-> task.signal, success |-> FALSE, error |-> err])
    /\ Emit(<< sse_event("task_failed", [signal |-> task.signal, error |-> err]) >>)

\* Variant: a failed task is reported on the stream but not recorded in results.
TaskRaisedNotRecorded(task, err) ==
    /\ RunEnds("raised")
    /\ pc' = "task_loop"
    /\ total_step_count' = total_step_count
    /\ results' = results
    /\ Emit(<< sse_event("task_failed", [signal |-> task.signal, error |-> err]) >>)

TaskRaised(task, err) ==
    /\ RunEnds("raised")
    /\ pc' = "task_loop"
    /\ total_step_count' = total_step_count
    /\ results' = Append(results, [signal |-> task.signal, success |-> FALSE, error |-> err])
    /\ Emit(<< sse_event("task_failed", [signal |-> task.signal, error |-> err]) >>)

\* The awaited diagnostic run returns or raises; either way the loop goes on.
TaskEnd ==
    /\ pc = "task_run"
    /\ ~InSweep
    /\ \/ \E h \in Histories : TaskSucceeded(request.tasks[ti], h)
       \/ \E err \in ErrTexts : TaskRaised(request.tasks[ti], err)
    /\ UNCHANGED <<request, env, r2env, resp, scan_id, video_url, browser, llm, task_index,
                   ti, exc, closeCalls, recDirs, recFiles, video_path, attempts,
                   uploaded>>
    /\ UNCHANGED <<age, outside>>

\* Loop exhausted: yield "Closing browser" and await browser.close()
CloseStart ==
    /\ pc = "task_loop"
    /\ ~InSweep
    /\ ti = Len(request.tasks)
    /\ Emit(<< StepEvent(total_step_count + 1, "Closing browser", "running") >>)
    /\ pc' = "closing"
    /\ UNCHANGED <<request, env, r2env, resp, scan_id, video_url, browser, llm,
                   total_step_count, task_index, results, ti, exc, agentRuns,
                   closeCalls, recDirs, recFiles, video_path, attempts, uploaded>>
    /\ UNCHANGED <<age, outside>>

\* Media the browser leaves in record_video_dir when it is closed.  The
\* browser names its files itself: those of two browsers are different files
\* even in one directory, hence the writer in a file's identity.
Produced(exts) ==
    IF request.record_video /\ scan_id \in recDirs
    THEN {<<scan_id, x, "session">> : x \in exts} ELSE {}

\* browser.close() returns or raises; then "Browser closed" and, if recording,
\* "Uploading video..."
CloseBrowser ==
    /\ pc = "closing"
    /\ ~InSweep
    /\ closeCalls' = closeCalls + 1
    /\ \/ /\ browser' = "closed"
          /\ \E exts \in ProducedSets :
                /\ recFiles' = recFiles \cup Produced(exts)
                /\ age' = IF Produced(exts) \subseteq recFiles THEN age
                           ELSE [age EXCEPT ![scan_id] = 0]
          /\ IF request.record_video
             THEN /\ Emit(<< StepEvent(total_step_count + 1, "Browser closed", "done"),
                             StepEvent(total_step_count + 2, "Uploading video...", "running") >>)
                  /\ pc' = "finalize"
             ELSE /\ Emit(<< StepEvent(total_step_count + 1, "Browser closed", "done") >>)
                  /\ pc' = "complete"
          /\ exc' = exc
       \/ /\ exc' = "browser close failed"
          /\ pc' = "fatal"
          /\ UNCHANGED <<browser, recFiles, age, events>>
    /\ UNCHANGED <<request, env, r2env, resp, scan_id, video_url, llm, total_step_count,
                   task_index, results, ti, agentRuns, recDirs, video_path, attempts,
                   uploaded>>
    /\ UNCHANGED outside

\* video_dir.glob("*" + x): the files of directory d with extension x.
glob(d, x) == {f \in recFiles : f[1] = d /\ f[2] = x}

\* list(video_dir.glob("*.mp4")) + list(video_dir.glob("*.webm")): the files
\* that can stand first in that list, video_files[0].  A glob lists the files
\* of one extension in no fixed order; every .mp4 precedes every .webm.
video_files_0(d) == IF glob(d, "mp4") # {} THEN glob(d, "mp4") ELSE glob(d, "webm")

\* key = f"replays/{scan_id}{extension}"
Key(path) == "replays/" \o path[1] \o "." \o path[2]

Url(key) ==
    IF Truthy(r2env.public) THEN r2env.public \o "/" \o key
    ELSE "https://bucket." \o r2env.account \o ".r2.cloudflarestorage.com/" \o key

\* Variant: searching a directory that no longer exists raises.
FinalizeMissingDirRaises ==
    /\ pc = "finalize"
    /\ ~InSweep
    /\ IF scan_id \notin recDirs
       THEN /\ exc' = "FileNotFoundError"
            /\ pc' = "fatal"
            /\ UNCHANGED <<video_path, attempts>>
       ELSE IF video_files_0(scan_id) = {}
       THEN /\ pc' = "complete"
            /\ UNCHANGED <<video_path, attempts, exc>>
       ELSE \E first \in video_files_0(scan_id) :
            /\ video_path' = first
            /\ IF get_r2_client(r2env) = None
               THEN /\ pc' = "complete"
                    /\ UNCHANGED <<attempts, exc>>
               ELSE \/ /\ exc' = "boto3 client failed"
                       /\ pc' = "fatal"
                       /\ attempts' = attempts
                    \/ /\ pc' = IF first \in recFiles THEN "uploading" ELSE "complete"
                       /\ attempts' = 0
                       /\ exc' = exc
    /\ UNCHANGED <<request, env, r2env, resp, scan_id, video_url, browser, llm,
                   total_step_count, task_index, results, ti, events, agentRuns,
                   closeCalls, recDirs, recFiles, uploaded>>
    /\ UNCHANGED <<age, outside>>

\* Search the session directory; with a file in hand enter upload_video:
\* get_r2_client(), file_path.exists(), then the retried upload.
Finalize ==
    /\ pc = "finalize"
    /\ ~InSweep
    /\ IF video_files_0(scan_id) = {}
       THEN /\ pc' = "complete"
            /\ UNCHANGED <<video_path, attempts, exc>>
       ELSE \E first \in video_files_0(scan_id) :
            /\ video_path' = first
            /\ IF get_r2_client(r2env) = None
               THEN /\ pc' = "complete"
                    /\ UNCHANGED <<attempts, exc>>
               ELSE \/ /\ exc' = "boto3 client failed"
                       /\ pc' = "fatal"
                       /\ attempts' = attempts
                    \/ /\ pc' = IF first \in recFiles THEN "uploading" ELSE "complete"
                       /\ attempts' = 0
                       /\ exc' = exc
    /\ UNCHANGED <<request, env, r2env, resp, scan_id, video_url, browser, llm,
                   total_step_count, task_index, results, ti, events, agentRuns,
                   closeCalls, recDirs, recFiles, uploaded>>
    /\ UNCHANGED <<age, outside>>

\* cleanup_local_video: Path(local_path).unlink(missing_ok=True)
cleanup_local_video(path) ==
    /\ recFiles' = recFiles \ {path}
    /\ age' = IF path \in recFiles THEN [age EXCEPT ![path[1]] = 0] ELSE age

\* One client.upload_file call inside _upload_file_with_retry.  Success returns
\* the URL, the local file is removed and "Video uploaded" is emitted; the
\* third failure is re-raised, caught by upload_video and turned into None.
UploadSucceeded ==
    /\ uploaded' = uploaded \cup {Key(video_path)}
    /\ video_url' = Url(Key(video_path))
    /\ cleanup_local_video(video_path)
    /\ Emit(<< StepEvent(total_step_count + 2, "Video uploaded", "done") >>)
    /\ pc' = "complete"
    /\ exc' = exc

\* Variant: a failed attempt always leads to another attempt.
UploadFailedAlwaysRetries ==
    /\ pc' = "uploading"
    /\ UNCHANGED <<uploaded, video_url, recFiles, age, events, exc>>

\* Variants: no retry after a failed attempt; the last failure escapes upload_video.
UploadFailedNoRetry ==
    /\ pc' = "complete"
    /\ UNCHANGED <<uploaded, video_url, recFiles, age, events, exc>>

UploadFailedReraised ==
    /\ pc' = IF attempts + 1 < MaxAttempts THEN "uploading" ELSE "fatal"
    /\ exc' = IF attempts + 1 < MaxAttempts THEN exc ELSE "upload failed"
    /\ UNCHANGED <<uploaded, video_url, recFiles, age, events>>

\* client.upload_file raised: tenacity retries until the third attempt, whose
\* exception is re-raised into upload_video's except, which returns None.
UploadFailed ==
    /\ pc' = IF attempts + 1 < MaxAttempts THEN "uploading" ELSE "complete"
    /\ UNCHANGED <<uploaded, video_url, recFiles, age, events, exc>>

UploadAttempt ==
    /\ pc = "uploading"
    /\ ~InSweep
    /\ attempts < MaxAttempts
    /\ attempts' = attempts + 1
    /\ \/ UploadSucceeded
       \/ UploadFailed
    /\ UNCHANGED <<request, env, r2env, resp, scan_id, browser, llm, total_step_count,
                   task_index, results, ti, agentRuns, closeCalls, recDirs,
                   video_path>>
    /\ UNCHANGED outside

\* Totals and the final `complete` event.
Complete ==
    /\ pc = "complete"
    /\ ~InSweep
    /\ Emit(<< sse_event("complete",
                 [success |-> TRUE, results |-> results, videoUrl |-> video_url,
                  scanId |-> scan_id,
                  totalInputTokens |-> SumField(results, "inputTokens"),
                  totalOutputTokens |-> SumField(results, "outputTokens")]) >>)
    /\ pc' = "done"
    /\ UNCHANGED <<request, env, r2env, resp, scan_id, video_url, browser, llm,
                   total_step_count, task_index, results, ti, exc, agentRuns,
                   closeCalls, recDirs, recFiles, video_path, attempts, uploaded>>
    /\ UNCHANGED <<age, outside>>

\* Variant: the handler reports the error without trying to close the browser.
HandleExceptionNoClose ==
    /\ pc = "fatal"
    /\ ~InSweep
    /\ Emit(<< sse_event("error", [message |-> exc, scanId |-> scan_id]) >>)
    /\ pc' = "done"
    /\ UNCHANGED <<request, env, r2env, resp, scan_id, video_url, browser, llm,
                   total_step_count, task_index, results, ti, exc, agentRuns,
                   closeCalls, recDirs, recFiles, video_path, attempts, uploaded>>
    /\ UNCHANGED <<age, outside>>

\* except Exception as e: best-effort browser.close() (its own error swallowed),
\* then the `error` event with message and scanId.
HandleException ==
    /\ pc = "fatal"
    /\ ~InSweep
    /\ IF browser # None
       THEN /\ closeCalls' = closeCalls + 1
            /\ \/ browser' = "closed"
               \/ browser' = browser
       ELSE UNCHANGED <<closeCalls, browser>>
    /\ Emit(<< sse_event("error", [message |-> exc, scanId |-> scan_id]) >>)
    /\ pc' = "done"
    /\ UNCHANGED <<request, env, r2env, resp, scan_id, video_url, llm, total_step_count,
                   task_index, results, ti, exc, agentRuns, recDirs, recFiles,
                   video_path, attempts, uploaded>>
    /\ UNCHANGED <<age, outside>>

Next ==
    \/ StartScan
    \/ CheckUrl
    \/ GetLLM
    \/ LaunchBrowser
    \/ PrepStart
    \/ PrepEnd
    \/ TaskStart
    \/ TaskEnd
    \/ CloseStart
    \/ CloseBrowser
    \/ Finalize
    \/ UploadAttempt
    \/ Complete
    \/ HandleException

Spec == Init /\ [][Next]_vars

(* ================= cleanup_old_recordings and the clock ================ *)
\* Everything of the session except the recordings root.
session == <<request, env, r2env, resp, pc, scan_id, video_url, browser, llm,
             total_step_count, task_index, results, ti, exc, events, agentRuns,
             closeCalls, video_path, attempts, uploaded>>
sse == <<sse_t, sse_d, sse_out>>

\* upload_video is a plain call made from the generator: from its entry to its
\* return (upload attempts and tenacity's time.sleep waits included) the event
\* loop's thread is inside it.
InUpload == pc = "uploading"

\* Between the file search and the `yield` of the complete event nothing is
\* awaited, and nothing is yielded but "Video uploaded": a session that has
\* searched and has "Uploading video..." as its last event is still running.
SearchedNoYield ==
    pc = "complete" /\ events[Len(events)][2].action = "Uploading video..."

\* Ages do not need telling apart once they are past the window by an interval.
AgeCap == RetentionWindow + SweepInterval
Older(a) == IF a + SweepInterval > AgeCap THEN AgeCap ELSE a + SweepInterval

\* The clock, sampled every SweepInterval seconds (a sweep is far shorter
\* than that): every entry is that much older, the sleep that much nearer
\* its end.
Tick ==
    /\ ~InSweep
    /\ age' = [e \in Entries |-> IF e \in recDirs \cup rootFiles THEN Older(age[e]) ELSE age[e]]
    /\ wake_in' = IF wake_in > SweepInterval THEN wake_in - SweepInterval ELSE 0
    /\ UNCHANGED <<session, recDirs, recFiles, rootFiles, swpc, lastSweep, sse, peer>>

\* await asyncio.sleep(900) is over (at start-up: the task is first scheduled)
\* and the event loop resumes the sweeper.
SweepWake ==
    /\ swpc = "sleeping"
    /\ wake_in = 0
    /\ ~InUpload
    /\ ~SearchedNoYield
    /\ swpc' = "sweeping"
    /\ UNCHANGED <<session, recDirs, recFiles, age, rootFiles, wake_in, lastSweep, sse, peer>>

\* With current_time as the origin of the time axis.
one_hour_ago == 0 - RetentionWindow
st_mtime(e) == 0 - age[e]
is_dir(e) == e \in recDirs

\* Variant: a directory exactly as old as the window is removed too.
ExpiredInclusive(e) == st_mtime(e) <= one_hour_ago

\* if stat.st_mtime < one_hour_ago
Expired(e) == st_mtime(e) < one_hour_ago

\* Variant: the is_dir test is inverted, only plain files are taken.
SweepTargetsNotDirs(visited) == {e \in visited : ~is_dir(e) /\ Expired(e)}

\* for scan_dir in RECORDINGS_DIR.iterdir(): if scan_dir.is_dir(): ... rmtree
SweepTargets(visited) == {e \in visited : is_dir(e) /\ Expired(e)}

\* Variant: an exception of the sweep ends the task instead of being logged.
SweepEndsLoopOnError(raised, targets) ==
    /\ lastSweep' = [ended |-> IF raised THEN "raised" ELSE "ok", removing |-> targets]
    /\ swpc' = IF raised THEN "dead" ELSE "sleeping"
    /\ wake_in' = SweepInterval

\* except Exception as e: logger.error(...); then await asyncio.sleep(900).
\* `targets` are the directories logged as "Removing old recording directory".
SweepEnds(raised, targets) ==
    /\ lastSweep' = [ended |-> IF raised THEN "raised" ELSE "ok", removing |-> targets]
    /\ swpc' = "sleeping"
    /\ wake_in' = SweepInterval

\* One pass of the try body.  iterdir() yields the entries in no fixed order;
\* the pass visits all of them, or those before an iterdir()/stat() call that
\* raised.  rmtree(ignore_errors=True) removes a target with its contents or
\* fails silently and leaves it.
SweepBody ==
    /\ swpc = "sweeping"
    /\ \E visited \in SUBSET (recDirs \cup rootFiles), raised \in BOOLEAN :
         /\ ~raised => visited = recDirs \cup rootFiles
         /\ \E removed \in SUBSET SweepTargets(visited) :
              /\ recDirs' = recDirs \ removed
              /\ rootFiles' = rootFiles \ removed
              /\ recFiles' = {f \in recFiles : f[1] \notin removed}
              /\ age' = [e \in Entries |-> IF e \in removed THEN 0 ELSE age[e]]
         /\ SweepEnds(raised, SweepTargets(visited))
    /\ UNCHANGED <<session, sse, peer>>

\* A root found at start-up: some of `dirs`, left by earlier sessions with
\* their recordings, and some of the plain files `files`, each of an age in `ages`.
RootWith(dirs, files, ages) ==
    /\ recDirs \in SUBSET dirs
    /\ rootFiles \in SUBSET files
    /\ recFiles = {<<d, "webm", "old">> : d \in recDirs}
    /\ age \in [Entries -> ages \cup {0}]
    /\ \A e \in Entries : age[e] = 0 <=> e \notin recDirs \cup rootFiles

OldRoot == RootWith(OldDirs, FileNames, OldAges)

\* The sweeper alone, no session being started.
InitSweeper ==
    /\ request \in [url : Urls, tasks : {<< >>}, prep_prompt : {None}, record_video : {TRUE}]
    /\ env \in {e \in SessionEnvs : get_llm(e) # "ValueError"}
    /\ r2env \in {r \in R2Envs : get_r2_client(r) # None}
    /\ FreshSession
    /\ OldRoot
    /\ SweeperCreated
    /\ NoPeer
    /\ SseUnused

NextSweeper ==
    \/ Tick
    \/ SweepWake
    \/ SweepBody

SpecSweeper == InitSweeper /\ [][NextSweeper]_vars

\* The event loop resumes a sweeper whose sleep is over, a started sweep runs
\* to its end, and time passes.
SpecSweeperFair ==
    SpecSweeper /\ WF_vars(Tick) /\ WF_vars(SweepWake) /\ WF_vars(SweepBody)

(* ====================== cancellation of the stream ===================== *)
\* Positions at which the generator is suspended in a yield or an await.
SuspensionPoints ==
    {"url_check", "get_llm", "launch", "prep_start", "prep_run", "task_loop", "task_run",
     "closing", "finalize", "complete"}

\* The caller is gone: CancelledError (or GeneratorExit) is raised at the point
\* of suspension, travelling through an awaited agent run.  Neither is an
\* Exception, so `except Exception` does not catch it and, with no finally
\* block, the generator ends there.
Cancel ==
    /\ pc \in SuspensionPoints
    /\ ~InSweep
    /\ pc' = "cancelled"
    /\ agentRuns' = IF pc \in {"prep_run", "task_run"}
                    THEN [agentRuns EXCEPT ![Len(agentRuns)].outcome = "cancelled"]
                    ELSE agentRuns
    /\ UNCHANGED <<request, env, r2env, resp, scan_id, video_url, browser, llm,
                   total_step_count, task_index, results, ti, exc, events, closeCalls,
                   recDirs, recFiles, video_path, attempts, uploaded, age, outside>>

NextCancel ==
    \/ Next
    \/ Cancel

SpecCancel == Init /\ [][NextCancel]_vars

(* ============ the process: one session, the sweeper, the clock ========= *)
\* A recording session with a prep action and one task, the store configured.
InitProcess ==
    /\ request \in [url : Urls, tasks : {<< t >> : t \in {s \in ScanTask : s.signal = "nav"}},
                    prep_prompt : {p \in PrepPrompts : Truthy(p)}, record_video : {TRUE}]
    /\ env \in {e \in SessionEnvs : get_llm(e) # "ValueError"}
    /\ r2env \in {r \in R2Envs : get_r2_client(r) # None}
    /\ FreshSession
    /\ RootWith({"0ldscan0"}, {}, {RetentionWindow + 1})
    /\ SweeperCreated
    /\ NoPeer
    /\ SseUnused

\* What the one event-loop thread, and the clock, can do next.
NextProcess ==
    \/ Next
    \/ Tick
    \/ SweepWake
    \/ SweepBody

SpecProcess == InitProcess /\ [][NextProcess]_vars

(* ====== the process, with time advancing and the sweeper loop fair ===== *)
\* rmtree(scan_dir, ignore_errors=True) on directory d succeeds.
Rmtree(d) == SweepBody /\ d \in recDirs /\ d \notin recDirs'

\* Time goes on, a sleep that is over ends when the event loop is free, a
\* sweep once begun ends, and the removal of a given expired directory does
\* not fail in every sweep for ever.  The code that runs without awaiting
\* (the upload attempts, the way to the `complete` event) runs to its end; a
\* session may stay suspended for ever anywhere else.
SpecProcessFair ==
    /\ SpecProcess
    /\ WF_vars(Tick) /\ WF_vars(SweepWake) /\ WF_vars(SweepBody)
    /\ WF_vars(UploadAttempt) /\ WF_vars(Complete)
    /\ \A d \in ScanIds : SF_vars(Rmtree(d))

(* ================= two requests served at the same time ================ *)
\* A second invocation of event_generator on the same event loop, followed as
\* far as the recordings root and the bucket are concerned: its scan_id and
\* directory, the media its browser writes, and its search, upload and delete.
\* It takes a step only while the first generator is suspended and no sweep
\* is running.
LoopFree == ~InSweep /\ ~InUpload /\ ~SearchedNoYield

PeerInFlight == peer.pc \in {"open", "finalize"}

\* scan_id = str(uuid.uuid4())[:8]; video_dir.mkdir(exist_ok=True)
PeerStart ==
    /\ peer.pc = "init"
    /\ LoopFree
    /\ \E id \in PeerIds :
         /\ peer' = [peer EXCEPT !.pc = "open", !.scan_id = id]
         /\ recDirs' = recDirs \cup {id}
         /\ age' = IF id \in recDirs THEN age ELSE [age EXCEPT ![id] = 0]
    /\ UNCHANGED <<session, recFiles, rootFiles, swpc, wake_in, lastSweep, sse>>

\* await browser.close(): the peer's browser leaves its media in its
\* record_video_dir.
PeerClose ==
    /\ peer.pc = "open"
    /\ LoopFree
    /\ \E exts \in ProducedSets :
         LET written == IF peer.scan_id \in recDirs
                        THEN {<<peer.scan_id, x, "peer">> : x \in exts} ELSE {}
         IN  /\ recFiles' = recFiles \cup written
             /\ age' = IF written \subseteq recFiles THEN age
                       ELSE [age EXCEPT ![peer.scan_id] = 0]
    /\ peer' = [peer EXCEPT !.pc = "finalize"]
    /\ UNCHANGED <<session, recDirs, rootFiles, swpc, wake_in, lastSweep, sse>>

\* The peer's file search, upload_video and cleanup_local_video, up to its
\* terminal event.
PeerFinalize ==
    /\ peer.pc = "finalize"
    /\ LoopFree
    /\ IF video_files_0(peer.scan_id) = {}
       THEN /\ peer' = [peer EXCEPT !.pc = "done"]
            /\ UNCHANGED <<recFiles, age, uploaded>>
       ELSE \E first \in video_files_0(peer.scan_id) :
            /\ peer' = [peer EXCEPT !.pc = "done", !.video_path = first]
            /\ \/ /\ get_r2_client(r2env) # None
                  /\ uploaded' = uploaded \cup {Key(first)}
                  /\ cleanup_local_video(first)
               \/ UNCHANGED <<recFiles, age, uploaded>>
    /\ UNCHANGED <<request, env, r2env, resp, pc, scan_id, video_url, browser, llm,
                   total_step_count, task_index, results, ti, exc, events, agentRuns,
                   closeCalls, video_path, attempts>>
    /\ UNCHANGED <<recDirs, rootFiles, swpc, wake_in, lastSweep, sse>>

\* Two recording sessions about to start on an empty recordings root.
InitPeers ==
    /\ request \in [url : Urls, tasks : {<< t >> : t \in {s \in ScanTask : s.signal = "nav"}},
                    prep_prompt : {p \in PrepPrompts : Truthy(p)}, record_video : {TRUE}]
    /\ env \in {e \in SessionEnvs : get_llm(e) # "ValueError"}
    /\ r2env \in {r \in R2Envs : get_r2_client(r) # None}
    /\ FreshSession
    /\ RootWith({}, {}, {})
    /\ SweeperCreated
    /\ SseUnused
    /\ peer = [pc |-> "init", scan_id |-> None, video_path |-> NoPath]

NextPeers ==
    \/ Next
    \/ PeerStart
    \/ PeerClose
    \/ PeerFinalize

SpecPeers == InitPeers /\ [][NextPeers]_vars

(* ========================= sse_event on its own ======================== *)
\* The event types the engine emits, and the one the unit test uses.
EventTypes ==
    {"start", "progress", "step", "task_complete", "task_failed", "complete", "error", "test"}
\* Payload dicts: those of the unit tests, some the engine builds, the empty
\* dict, and dicts that have a "type" key of their own.
Payloads ==
    { [key |-> "value"],
      [scanId |-> "abc123", message |-> "Starting..."],
      [success |-> TRUE, results |-> << >>, videoUrl |-> "https://example.com/video.mp4"],
      [message |-> "boom"],
      [step |-> 0, action |-> "Checking URL", status |-> "running"],
      << >>,
      [type |-> "error", message |-> "boom"],
      [type |-> "step", step |-> 1] }

InitSse ==
    /\ request \in [url : Urls, tasks : {<< >>}, prep_prompt : {None}, record_video : {TRUE}]
    /\ env \in {e \in SessionEnvs : get_llm(e) # "ValueError"}
    /\ r2env \in {r \in R2Envs : get_r2_client(r) # None}
    /\ FreshSession
    /\ RootWith({}, {}, {})
    /\ SweeperCreated
    /\ NoPeer
    /\ sse_t \in EventTypes
    /\ sse_d \in Payloads
    /\ sse_out = << >>

\* result = sse_event(event_type, data)
ApplySseEvent ==
    /\ sse_out = << >>
    /\ sse_out' = sse_event(sse_t, sse_d)
    /\ UNCHANGED <<session, recDirs, recFiles, age, rootFiles, swpc, wake_in, lastSweep,
                   sse_t, sse_d, peer>>

NextSse == ApplySseEvent

SpecSse == InitSse /\ [][NextSse]_vars

(* ========================== get_llm on its own ========================= *)
\* Each credential unset (os.getenv gives None), set to "" or set to a value.
LlmEnvs == [azure_endpoint : {None, "", "https://test.openai.azure.com/"},
            azure_key : {None, "", "azure-key"},
            openai_key : {None, "", "openai-key"},
            anthropic_key : {None, "", "test-key"}]

InitLlm ==
    /\ request \in [url : Urls, tasks : {<< >>}, prep_prompt : {None}, record_video : {TRUE}]
    /\ env \in LlmEnvs
    /\ r2env \in {r \in R2Envs : get_r2_client(r) # None}
    /\ FreshSession
    /\ RootWith({}, {}, {})
    /\ SweeperCreated
    /\ NoPeer
    /\ SseUnused

\* llm = get_llm(), or the ValueError it raises
ApplyGetLlm ==
    /\ llm = None /\ exc = None
    /\ IF get_llm(env) = "ValueError"
       THEN exc' = "No API key found" /\ llm' = llm
       ELSE llm' = get_llm(env) /\ exc' = exc
    /\ UNCHANGED <<request, env, r2env, resp, pc, scan_id, video_url, browser,
                   total_step_count, task_index, results, ti, events, agentRuns,
                   closeCalls, recDirs, recFiles, video_path, attempts, uploaded, age, outside>>

NextLlm == ApplyGetLlm

SpecLlm == InitLlm /\ [][NextLlm]_vars

(* ============= the session, with every awaited call returning ========== *)
\* The URL check, the browser launch and close and every agent run return or
\* raise, the prep run is cut off by its timeout, and the consumer keeps
\* reading the stream: whenever the generator can take a step, it does.
SpecFair == Spec /\ WF_vars(Next)

(* ===================== stream and run observations ==================== *)
Payload(i) == events[i][2]
Indices == 1..Len(events)
OfType(types) == {i \in Indices : Payload(i).type \in types}
LastType == IF events = << >> THEN None ELSE Payload(Len(events)).type
WithSignal(sig) == {i \in Indices : "signal" \in DOMAIN Payload(i) /\ Payload(i).signal = sig}
IsRun(kind, r) == r.kind = kind
PrepRuns == SelectSeq(agentRuns, LAMBDA r : IsRun("prep", r))
TaskRuns == SelectSeq(agentRuns, LAMBDA r : IsRun("task", r))
NTasks == Len(request.tasks)
UrlCheckFailed ==
    \/ resp.kind \in {"timeout", "error"}
    \/ resp.kind = "response" /\ ~(200 <= resp.status /\ resp.status <= 299)

(* ------------------------------- C1 ----------------------------------- *)
\* C1: at every moment the stream holds at most one terminal event
\* (`complete` or `error`), a terminal event is the last event and ends the
\* session, and a finished session holds exactly one.
C1_OneTerminalEventLast ==
    /\ \A i \in Indices :
          Payload(i).type \in {"complete", "error"} => i = Len(events) /\ pc = "done"
    /\ pc = "done" => LastType \in {"complete", "error"}

\* A session that failed a task, then failed to close the browser, ended by `error`.
C1_Witness ==
    /\ pc = "done"
    /\ LastType = "error"
    /\ exc = "browser close failed"
    /\ OfType({"task_failed"}) # {}

(* ------------------------------- C2 ----------------------------------- *)
\* C2: a diagnostic run that raises never takes the session out of the task
\* loop while tasks remain, and the `results` of the `complete` event has one
\* entry per request task, in request order, with that task's signal and
\* success = TRUE exactly when that task's run returned.
C2_ResultsMatchTasks ==
    /\ (\E i \in 1..Len(TaskRuns) : TaskRuns[i].outcome = "raised") /\ Len(TaskRuns) < NTasks
          => pc \in {"task_loop", "task_run"}
    /\ LastType = "complete" =>
          LET rs == Payload(Len(events)).results
          IN  /\ Len(rs) = NTasks
              /\ Len(TaskRuns) = NTasks
              /\ \A i \in 1..NTasks :
                    /\ rs[i].signal = request.tasks[i].signal
                    /\ TaskRuns[i].task = "You are already on " \o request.url \o ". "
                                           \o request.tasks[i].prompt
                    /\ rs[i].success = (TaskRuns[i].outcome = "returned")

\* Tasks [A(fails), B(succeeds)] gave results [A: false, B: true].
C2_Witness ==
    /\ LastType = "complete"
    /\ NTasks = 2
    /\ TaskRuns[1].outcome = "raised" /\ TaskRuns[2].outcome = "returned"
    /\ ~Payload(Len(events)).results[1].success
    /\ Payload(Len(events)).results[2].success

(* ------------------------------- C3 ----------------------------------- *)
PrepFailed == PrepRuns # << >> /\ PrepRuns[1].outcome \in {"raised", "timeout"}
PrepFailedEvents == OfType({"task_failed"}) \cap WithSignal("prep")
\* Failed diagnostic runs of tasks whose caller-chosen signal is also "prep".
FailedTasksSignalled(sig) ==
    {i \in 1..Len(TaskRuns) : TaskRuns[i].outcome = "raised" /\ request.tasks[i].signal = sig}

C4_UrlFailureStopsSession ==
    UrlCheckFailed =>
        /\ pc = "done"
        /\ Cardinality(OfType({"error"})) = 1
        /\ LastType = "error"
        /\ llm = None /\ browser = None /\ closeCalls = 0
        /\ agentRuns = << >>
        /\ OfType({"progress", "task_complete", "task_failed", "complete"}) = {}

\* A redirect that ended in status 300.
C4_Witness ==
    /\ resp.kind = "response" /\ resp.status = 300 /\ resp.url # request.url
    /\ pc = "done"
    /\ LastType = "error"

(* ------------------------------- C5 ----------------------------------- *)
Got404 == resp.kind = "response" /\ resp.status = 404
Redirected == resp.kind = "response" /\ resp.url # request.url

\* C5 as stated: after a 404 the whole stream is the single `error` event.
C5_Stated_OnlyErrorEvent ==
    Got404 => Len(events) = 1 /\ LastType = "error"

\* C5: after a 404 the stream is the `start` event, the step-0 "Checking
\* URL" step, a step-0 "Redirected to" step when the GET was redirected, and
\* then the single `error` event, which is last; nothing follows it.
C5_404StreamShape ==
    Got404 =>
        /\ pc = "done"
        /\ Len(events) = IF Redirected THEN 4 ELSE 3
        /\ Payload(1).type = "start"
        /\ Payload(2) = StepEvent(0, "Checking URL: " \o request.url, "running")[2]
        /\ Redirected => Payload(3) = StepEvent(0, "Redirected to: " \o resp.url, "done")[2]
        /\ LastType = "error"
        /\ Cardinality(OfType({"error"})) = 1

\* A redirected request that ended in a 404.
C5_Witness ==
    Got404 /\ Redirected /\ Len(events) = 4 /\ LastType = "error"

(* ------------------------------- C6 ----------------------------------- *)
StepIdx == OfType({"step"})
IsStep(e) == e[2].type = "step"
\* The step numbers of the step events, in emission order.
StepNumbers ==
    LET steps == SelectSeq(events, IsStep)
    IN  [k \in 1..Len(steps) |-> steps[k][2].step]

\* C6 as stated: step numbers start at 0 and strictly increase.
C6_Stated_StrictlyIncreasing ==
    LET ns == StepNumbers
    IN  /\ ns # << >> => ns[1] = 0
        /\ \A k \in 1..(Len(ns) - 1) : ns[k] < ns[k + 1]

\* C6: the step numbers of a session's step events, in emission order,
\* start at 0 and never decrease (equal numbers on different step events
\* do occur).
C6_StartAtZeroNonDecreasing ==
    LET ns == StepNumbers
    IN  /\ ns # << >> => ns[1] = 0
        /\ \A k \in 1..(Len(ns) - 1) : ns[k] <= ns[k + 1]

\* A completed session whose prep and task runs both left trace steps.
C6_Witness ==
    /\ LastType = "complete"
    /\ total_step_count >= 2
    /\ PrepRuns # << >>
    /\ \E i, j \in StepIdx : i < j /\ Payload(i).step = Payload(j).step /\ Payload(i).step > 0

(* ------------------------------- C7 ----------------------------------- *)
NoPrepPrompt == ~Truthy(request.prep_prompt)
TasksSignalled(sig, upto) == {k \in 1..upto : request.tasks[k].signal = sig}

\* C7 as stated: without a prep prompt no event carries signal "prep".
C7_Stated_NoPrepSignal ==
    NoPrepPrompt => WithSignal("prep") = {}

\* C7: without a prep prompt no prep run is started and the prep block
\* emits nothing; events carrying signal "prep" come only from diagnostic
\* tasks whose own signal is "prep" (one progress and at most one outcome
\* event per such task started), so with no such task there is none.
C7_NoPrepBlockEvents ==
    NoPrepPrompt =>
        /\ PrepRuns = << >>
        /\ \A i \in Indices : "name" \in DOMAIN Payload(i) => Payload(i).name # "Prep Action"
        /\ TasksSignalled("prep", NTasks) = {} => WithSignal("prep") = {}
        /\ Cardinality(WithSignal("prep") \cap OfType({"progress"}))
              = Cardinality(TasksSignalled("prep", ti))
        /\ Cardinality(WithSignal("prep") \cap OfType({"task_complete", "task_failed"}))
              = Cardinality(TasksSignalled("prep", Len(results)))

\* An empty prep prompt, tasks signalled "nav" then "prep", session completed.
C7_Witness ==
    /\ request.prep_prompt = ""
    /\ NTasks = 2
    /\ request.tasks[1].signal = "nav" /\ request.tasks[2].signal = "prep"
    /\ LastType = "complete"
    /\ WithSignal("prep") # {}

(* ------------------------------- C8 ----------------------------------- *)
\* C8: every `error` event carries a `message` and the session's `scanId`.
C8_ErrorCarriesMessageAndScanId ==
    \A i \in OfType({"error"}) :
        /\ "message" \in DOMAIN Payload(i)
        /\ "scanId" \in DOMAIN Payload(i)
        /\ Payload(i).scanId = scan_id

(* ------------------------------- C9 ----------------------------------- *)
UploadOver == attempts > 0 /\ pc # "uploading"

FinalizationStarted ==
    \E i \in StepIdx : Payload(i).action = "Uploading video..."
NoMediaFound == FinalizationStarted /\ pc # "finalize" /\ video_path = NoPath
StoreUnconfigured ==
    FinalizationStarted /\ pc # "finalize" /\ video_path # NoPath /\ get_r2_client(r2env) = None
AllAttemptsFailed == attempts = MaxAttempts /\ uploaded = {}

\* C10: when no media file was found, or the store is unconfigured, or all
\* upload attempts failed, no exception is travelling, the session goes on to
\* `complete` and its videoUrl is None; the videoUrl of any `complete` event is
\* the session's video_url, which is set only after an attempt stored the file.
C10_UploadNeverFailsSession ==
    /\ (NoMediaFound \/ StoreUnconfigured \/ AllAttemptsFailed) =>
          /\ exc = None
          /\ pc \in {"complete", "done"}
          /\ video_url = None
          /\ pc = "done" => LastType = "complete" /\ Payload(Len(events)).videoUrl = None
    /\ video_url # None => uploaded # {}
    /\ LastType = "complete" => Payload(Len(events)).videoUrl = video_url

\* All three attempts failed and the session still ended with `complete`.
C10_Witness ==
    /\ AllAttemptsFailed
    /\ pc = "done"
    /\ LastType = "complete"
    /\ Payload(Len(events)).videoUrl = None
    /\ video_path \in recFiles

(* ------------------------------- C15 ---------------------------------- *)
\* Exceptions raised after URL verification and outside the two task try-blocks.
PostUrlErrors ==
    {"No API key found", "browser launch failed", "browser close failed", "boto3 client failed"}
\* browser.close() calls of the normal path that came before the exception.
ClosesBefore(e) == IF e \in {"browser close failed", "boto3 client failed"} THEN 1 ELSE 0
\* Whether `action` is the last step the session announced before raising `e`.
LastStepBefore(e, action) ==
    CASE e = "No API key found"      -> SubSeq(action, 1, 12) = "URL verified"
      [] e = "browser launch failed" -> action = "Launching browser"
      [] e = "browser close failed"  -> action = "Closing browser"
      [] e = "boto3 client failed"   -> action = "Uploading video..."

\* C15: once LLM selection, browser launch, browser close or finalization
\* has raised, nothing but the handler runs: while the exception travels the
\* stream has no terminal event, and when the session is over the stream's
\* last event is its only `error` event, it is exactly {type, message, scanId}
\* with the exception's message and the session id, it directly follows the
\* step that was announced before the raise, there is no `complete` event,
\* and the handler has called browser.close() once if and only if a browser
\* object exists -- whatever that call did to the browser.
C15_FatalPathClosesAndReports ==
    exc \in PostUrlErrors =>
        /\ pc \in {"fatal", "done"}
        /\ pc = "fatal" =>
              /\ OfType({"error", "complete"}) = {}
              /\ closeCalls = ClosesBefore(exc)
        /\ pc = "done" =>
              /\ Payload(Len(events)) = [type |-> "error", message |-> exc, scanId |-> scan_id]
              /\ OfType({"error"}) = {Len(events)}
              /\ OfType({"complete"}) = {}
              /\ Payload(Len(events) - 1).type = "step"
              /\ LastStepBefore(exc, Payload(Len(events) - 1).action)
              /\ closeCalls = ClosesBefore(exc) + (IF browser = None THEN 0 ELSE 1)
        /\ exc \in {"No API key found", "browser launch failed"} =>
              browser = None /\ agentRuns = << >>
        /\ video_url = None /\ uploaded = {}

\* browser.close() raised after the tasks, and raised again inside the handler:
\* the browser is still open and the stream ended with the `error` event.
C15_Witness ==
    /\ exc = "browser close failed"
    /\ pc = "done"
    /\ browser = "open"
    /\ closeCalls = 2
    /\ agentRuns # << >>
    /\ Payload(Len(events)) = [type |-> "error", message |-> exc, scanId |-> scan_id]

(* ------------------------------- C16 ---------------------------------- *)
\* C16: in a stream that ended with `complete`, every "Uploading video..."
\* step with status "running" is followed, before the `complete` event, by a
\* step event with the same step number and status "done".
C16_FinalizationBracketed ==
    LastType = "complete" =>
        \A i \in StepIdx :
            Payload(i).action = "Uploading video..." /\ Payload(i).status = "running" =>
                \E j \in StepIdx :
                    /\ i < j /\ j < Len(events)
                    /\ Payload(j).step = Payload(i).step
                    /\ Payload(j).status = "done"

(* ------------------------------- C17 ---------------------------------- *)
\* C17: when the stream has its terminal event and the upload stored the
\* recording, the session's directory is no longer under the recordings root
\* and no media file of the session is left.
C17_DirDeletedAfterUpload ==
    LastType \in {"complete", "error"} /\ video_url # None =>
        /\ scan_id \notin recDirs
        /\ \A f \in recFiles : f[1] # scan_id

(* ------------------------------- C18 ---------------------------------- *)
IsOutcome(e) == e[2].type \in {"task_complete", "task_failed"}
\* The task_complete / task_failed events in emission order; the prep block's
\* one, when prep ran, comes before those of the diagnostic tasks.
Outcomes == SelectSeq(events, IsOutcome)
DiagnosticOutcomes == IF PrepRuns # << >> /\ Outcomes # << >> THEN Tail(Outcomes) ELSE Outcomes
RECURSIVE TokensReported(_, _)
\* Tokens the task_complete events of `evs` report in field f; a task_failed counts 0.
TokensReported(evs, f) ==
    IF evs = << >> THEN 0
    ELSE (IF Head(evs)[2].type = "task_complete" THEN Head(evs)[2][f] ELSE 0)
         + TokensReported(Tail(evs), f)

\* C18: the totals of the `complete` event are the sums of the token counts
\* the diagnostic tasks reported in their task_complete events; the prep
\* run's counts are not in them and a failed diagnostic task adds nothing.
C18_TotalsAreDiagnosticSums ==
    LastType = "complete" =>
        /\ Len(DiagnosticOutcomes) = NTasks
        /\ Payload(Len(events)).totalInputTokens = TokensReported(DiagnosticOutcomes, "inputTokens")
        /\ Payload(Len(events)).totalOutputTokens = TokensReported(DiagnosticOutcomes, "outputTokens")

\* Prep reported tokens, the first task failed, the second reported tokens:
\* the totals are the second task's counts alone.
C18_Witness ==
    /\ LastType = "complete"
    /\ PrepRuns # << >> /\ PrepRuns[1].outcome = "returned"
    /\ Outcomes[1][2].inputTokens > 0
    /\ NTasks = 2
    /\ TaskRuns[1].outcome = "raised" /\ TaskRuns[2].outcome = "returned"
    /\ Payload(Len(events)).totalInputTokens = Outcomes[3][2].inputTokens
    /\ Payload(Len(events)).totalOutputTokens = Outcomes[3][2].outputTokens
    /\ Payload(Len(events)).totalInputTokens > 0

(* ------------------------------- C19 ---------------------------------- *)
BrowserLaunches == {i \in StepIdx : Payload(i).action = "Browser launched"}

\* C19: a session launches at most one browser, and exactly one before any
\* agent run; every run was started on that browser while it was open; only
\* the run started last can still be running, so a run is started only after
\* the one before it returned, raised or (prep) timed out; a prep run is the
\* first run; the diagnostic runs are those of request.tasks in order; and
\* once browser.close() has been called no run is running and none starts.
C19_OneBrowserOneTaskAtATime ==
    /\ Cardinality(BrowserLaunches) <= 1
    /\ agentRuns # << >> => Cardinality(BrowserLaunches) = 1
    /\ \A i \in 1..Len(agentRuns) :
          /\ agentRuns[i].browser = "open"
          /\ i < Len(agentRuns) => agentRuns[i].outcome \in {"returned", "raised", "timeout"}
          /\ agentRuns[i].outcome = "timeout" => agentRuns[i].kind = "prep"
          /\ agentRuns[i].kind = "prep" => i = 1
          /\ agentRuns[i].outcome = "running" <=> i = Len(agentRuns) /\ pc \in {"prep_run", "task_run"}
    /\ Len(PrepRuns) <= 1
    /\ Len(TaskRuns) <= NTasks
    /\ \A i \in 1..Len(TaskRuns) :
          TaskRuns[i].task = "You are already on " \o request.url \o ". " \o request.tasks[i].prompt
    /\ (closeCalls > 0 \/ browser = "closed") =>
          /\ pc \notin {"prep_start", "prep_run", "task_loop", "task_run"}
          /\ Len(TaskRuns) = NTasks

\* The prep run timed out, the first task raised, and the second task is
\* running: three runs on the one open browser, the earlier two finished.
C19_Witness ==
    /\ Len(agentRuns) = 3
    /\ agentRuns[1].kind = "prep" /\ agentRuns[1].outcome = "timeout"
    /\ agentRuns[2].outcome = "raised"
    /\ agentRuns[3].outcome = "running"
    /\ browser = "open" /\ closeCalls = 0
    /\ Cardinality(BrowserLaunches) = 1

(* ------------------------------- C11 ---------------------------------- *)
FilesIn(files, d) == {f \in files : f[1] = d}
\* A step that is one sweep: from the sweeper's wake-up to its next sleep.
IsSweep == swpc = "sweeping" /\ swpc' # "sweeping"

\* C11: a sweep only removes: whatever it removes is a directory whose age
\* at the sweep is more than the retention window; every directory not older
\* than the window (its age equal to the window included) and every
\* non-directory entry, however old, is there after the sweep with the same
\* modification time and, for a directory, the same contents.
C11_SweepRemovesOnlyExpiredDirs ==
    [][IsSweep =>
          /\ recDirs' \subseteq recDirs
          /\ recFiles' \subseteq recFiles
          /\ \A d \in recDirs \ recDirs' : age[d] > RetentionWindow
          /\ \A d \in recDirs :
                age[d] <= RetentionWindow =>
                    /\ d \in recDirs'
                    /\ age'[d] = age[d]
                    /\ FilesIn(recFiles', d) = FilesIn(recFiles, d)
          /\ rootFiles' = rootFiles
          /\ \A e \in rootFiles : age'[e] = age[e]
      ]_vars

\* Just after a sweep that ended normally: it removed the directory that was
\* one second past the window and left the directory exactly as old as the
\* window, with its recording, and the plain file older than the window.
C11_Witness ==
    /\ swpc = "sleeping" /\ wake_in = SweepInterval
    /\ lastSweep = [ended |-> "ok", removing |-> {"0ldscan0"}]
    /\ recDirs = {"0ldscan1"}
    /\ age["0ldscan1"] = RetentionWindow
    /\ <<"0ldscan1", "webm", "old">> \in recFiles
    /\ rootFiles = FileNames
    /\ \A e \in rootFiles : age[e] > RetentionWindow

(* ------------------------------- C12 ---------------------------------- *)
\* C12: a sweep that raised leaves the sweeper asleep, not stopped; a sweep
\* starts only when the sleep is over; and after every sweep that raised
\* another sweep is eventually started.
C12_SweepFailureDoesNotStopLoop ==
    /\ [](lastSweep.ended = "raised" => swpc \in {"sleeping", "sweeping"})
    /\ [][swpc = "sleeping" /\ swpc' = "sweeping" => wake_in = 0]_vars
    /\ [][IsSweep => swpc' = "sleeping" /\ wake_in' = SweepInterval]_vars
    /\ (lastSweep.ended = "raised" /\ swpc # "sweeping") ~> (swpc = "sweeping")

\* A sweep raised after it had set out to remove a directory, and the next
\* sweep has been started.
C12_Witness ==
    /\ lastSweep.ended = "raised"
    /\ lastSweep.removing # {}
    /\ swpc = "sweeping"

(* ------------------------------- C13 ---------------------------------- *)
\* The sweeper's sleep is over: its next pass is due.
SweepDue == swpc = "sleeping" /\ wake_in = 0

\* C13: whatever the session is doing, a sweep that is due can be started.
C13_DueSweepCanRun == SweepDue => ENABLED SweepWake

(* ------------------------------- C14 ---------------------------------- *)
\* C14: a session cancelled while its browser was open has had
\* browser.close() called on it.
C14_CancelledSessionClosesBrowser ==
    pc = "cancelled" /\ browser = "open" => closeCalls > 0

(* ------------------------------- C20 ---------------------------------- *)
SseApplied == sse_out # << >>
Framed(out) == Len(out) = 3 /\ out[1] = "data: " /\ out[3] = "\n\n"
Contains(obj, d) == \A k \in DOMAIN d : k \in DOMAIN obj /\ obj[k] = d[k]

IsSet(v) == v \notin {None, ""}
AzureSet == IsSet(env.azure_endpoint) /\ IsSet(env.azure_key)
LlmApplied == llm # None \/ exc # None

\* C21: once get_llm has run, it returned the Azure client exactly when both
\* Azure credentials are set, the OpenAI client exactly when they are not and
\* the OpenAI key is set, the Anthropic client exactly when neither holds
\* and the Anthropic key is set, and it raised ValueError("No API key
\* found...") exactly when none of the three conditions holds.
C21_LlmPriority ==
    LlmApplied =>
        /\ llm = "ChatAzureOpenAI" <=> AzureSet
        /\ llm = "ChatOpenAI" <=> ~AzureSet /\ IsSet(env.openai_key)
        /\ llm = "ChatAnthropic" <=>
              ~AzureSet /\ ~IsSet(env.openai_key) /\ IsSet(env.anthropic_key)
        /\ exc = "No API key found" <=>
              ~AzureSet /\ ~IsSet(env.openai_key) /\ ~IsSet(env.anthropic_key)
        /\ exc # None <=> llm = None

\* Azure pair and the OpenAI key all set: the Azure client was returned.
C21_Witness ==
    /\ LlmApplied
    /\ AzureSet /\ IsSet(env.openai_key) /\ IsSet(env.anthropic_key)
    /\ llm = "ChatAzureOpenAI"

(* ------------------------------- C22 ---------------------------------- *)
\* C22: a session whose request has record_video = FALSE has, at no point,
\* a directory of its own under the recordings root.
C22_NoDirWithoutRecording ==
    ~request.record_video => scan_id \notin recDirs

(* ------------------------------- C23 ---------------------------------- *)
Populated(r, f) == f \in DOMAIN r /\ r[f] \notin {None, ""}

\* C23: every entry of `results` with success = TRUE has a populated
\* `output` and no `error`, and every entry with success = FALSE has a
\* populated `error` and no `output`.
C23_TaskResultInvariant ==
    \A i \in 1..Len(results) :
        IF results[i].success
        THEN Populated(results[i], "output") /\ "error" \notin DOMAIN results[i]
        ELSE Populated(results[i], "error") /\ "output" \notin DOMAIN results[i]

(* ------------------------------- C27 ---------------------------------- *)
\* The positions of the diagnostic loop's `progress` events, in order: all
\* `progress` events but the first one when the prep block ran, which emits
\* its own `progress` before any task.
TaskProgress ==
    LET all == SelectSeq([i \in 1..Len(events) |-> i],
                         LAMBDA i : Payload(i).type = "progress")
    IN  IF PrepRuns # << >> /\ all # << >> THEN Tail(all) ELSE all
\* The k-th of them, and the stretch of the stream that belongs to it: from
\* the event after it up to the next `progress` event or the end.
ProgressAt(k) == TaskProgress[k]
StretchEnd(k) == IF k < Len(TaskProgress) THEN ProgressAt(k + 1) - 1 ELSE Len(events)
TaskOutcomes(k) == {j \in (ProgressAt(k) + 1)..StretchEnd(k) :
                       Payload(j).type \in {"task_complete", "task_failed"}}

\* C27: every attempted diagnostic task has exactly one `progress` event,
\* carrying its signal and name; the events between it and the task's outcome
\* event are `step` events (first the "Running" step, then the trace steps
\* with the task's signal); a run that has ended has exactly one outcome event
\* before the next `progress`, with the task's signal, `task_complete` if the
\* run returned and `task_failed` if it raised; a run still going has none.
C27_TaskEventOrder ==
    LET tp == TaskProgress
        runs == TaskRuns
    IN  /\ Len(tp) = Len(runs)
        /\ \A k \in 1..Len(runs) :
              LET p == tp[k]
                  last == IF k < Len(tp) THEN tp[k + 1] - 1 ELSE Len(events)
                  task == request.tasks[k]
                  outs == {j \in (p + 1)..last :
                              Payload(j).type \in {"task_complete", "task_failed"}}
              IN  /\ Payload(p).signal = task.signal
                  /\ Payload(p).name = task.name
                  /\ Payload(p + 1).type = "step"
                  /\ Payload(p + 1).action = "Running: " \o task.name
                  /\ IF runs[k].outcome = "running"
                     THEN outs = {} /\ last = p + 1
                     ELSE /\ Cardinality(outs) = 1
                          /\ \A o \in outs :
                                /\ Payload(o).signal = task.signal
                                /\ Payload(o).type = IF runs[k].outcome = "returned"
                                                     THEN "task_complete" ELSE "task_failed"
                                /\ \A j \in (p + 2)..(o - 1) :
                                      /\ Payload(j).type = "step"
                                      /\ Payload(j).signal = task.signal
                                /\ k < Len(tp) => o = last

\* A finished session whose first task returned with a trace step and whose
\* second task raised.
C27_Witness ==
    /\ pc = "done"
    /\ Len(TaskRuns) = 2
    /\ TaskRuns[1].outcome = "returned"
    /\ TaskRuns[2].outcome = "raised"
    /\ TaskOutcomes(1) # {} /\ \A o \in TaskOutcomes(1) : o > ProgressAt(1) + 2
    /\ \A o \in TaskOutcomes(2) : Payload(o).type = "task_failed"

(* ------------------------------- C29 ---------------------------------- *)
\* C29: no `step` event carries a step number smaller than that of any
\* earlier `step` event of the session, whichever block emitted the two
\* (URL check, launch, prep, a returned or failed task, close, upload), and
\* no step number runs ahead of the shared counter by more than the two
\* slots the close and upload steps use.
C29_StepNeverGoesBackwards ==
    LET ns == StepNumbers
    IN  /\ \A j \in 1..Len(ns) : \A i \in 1..(j - 1) : ns[i] <= ns[j]
        /\ \A j \in 1..Len(ns) : ns[j] <= total_step_count + 2

\* A completed session with prep trace steps, a failed task followed by
\* another task, and the close and upload steps.
C29_Witness ==
    /\ LastType = "complete"
    /\ PrepRuns # << >> /\ PrepRuns[1].outcome = "returned"
    /\ total_step_count >= 1
    /\ Len(TaskRuns) = 2 /\ TaskRuns[1].outcome = "raised"
    /\ \E i \in StepIdx : Payload(i).action = "Video uploaded"
    /\ \E i \in StepIdx : Payload(i).action = "Closing browser"

(* ------------------------------- C25 ---------------------------------- *)
\* The session has started and has not yet emitted its terminal event.
InFlight == pc \notin {"init", "done"}

\* C25: no step removes the recording directory of a session that is in
\* flight, however long the session has been running.
C25_SweepSparesSessionInFlight ==
    [][(InFlight /\ scan_id \in recDirs) => scan_id \in recDirs']_vars

(* ------------------------------- C26 ---------------------------------- *)
\* The session's directory is gone from the recordings root although the
\* session never removes it: a sweep has deleted it, with any media in it.
SweptAway == scan_id \notin recDirs

\* C26: when a sweep has deleted the session's directory before the file
\* search, the search and everything after it raise nothing: the session
\* goes on to emit `complete` with no file in hand; and a sweep always ends
\* with the sweeper asleep again, waiting for its next sweep.
C26_SweepDuringFinalizationIsHarmless ==
    [][/\ (pc = "finalize" /\ SweptAway) =>
              /\ pc' \in {"finalize", "complete"}
              /\ video_path' = NoPath
              /\ exc' = None
       /\ (pc = "complete" /\ SweptAway /\ pc' # pc) =>
              /\ pc' = "done"
              /\ events'[Len(events')][2].type = "complete"
       /\ swpc = "sweeping" /\ swpc' # swpc => swpc' = "sleeping" /\ wake_in' = SweepInterval
      ]_vars

\* The search has just run on a directory that a sweep removed: no file in
\* hand, no exception, `complete` is what the session emits next.
C26_Witness ==
    /\ SearchedNoYield
    /\ request.record_video
    /\ SweptAway
    /\ lastSweep.removing = {scan_id}
    /\ swpc = "sleeping"
    /\ video_path = NoPath
    /\ exc = None

(* ------------------------------- C28 ---------------------------------- *)
\* C28: a session that has started eventually emits its terminal event
\* (`complete` or `error`) and ends, whatever the outcomes of its awaited
\* calls are.
C28_SessionTerminates ==
    (pc # "init") ~> (pc = "done" /\ LastType \in {"complete", "error"})

\* A session that ended although its prep run was cut off by the timeout and
\* all its upload attempts failed.
C28_Witness ==
    /\ pc = "done"
    /\ LastType = "complete"
    /\ PrepRuns # << >> /\ PrepRuns[1].outcome = "timeout"
    /\ attempts = MaxAttempts
    /\ video_url = None
    /\ video_path # NoPath

(* ------------------------------- C30 ---------------------------------- *)
\* The session has emitted its terminal event.
Terminated == pc = "done" /\ LastType \in {"complete", "error"}

C24_ConcurrentSessionsDistinct ==
    /\ (InFlight /\ PeerInFlight) => scan_id # peer.scan_id
    /\ video_path # NoPath => video_path[3] = "session"
    /\ peer.video_path # NoPath => peer.video_path[3] = "peer"

====
